---- MODULE Spec2Model ----
(***************************************************************************)
(* Model of the local semantic vector store of modules/legal_indexer.py:   *)
(* the EmbeddingModel, the LegalIndexer (in-memory flat inner-product      *)
(* index plus the parallel metadata list) and its two persisted files.     *)
(*                                                                         *)
(* One process at a time owns the store.  A process can be killed, also    *)
(* inside save_index and clear_index between their two file operations;    *)
(* the in-memory store is then lost and the files stay as they were left.  *)
(***************************************************************************)
EXTENDS Integers, Sequences, FiniteSets, TLC

VARIABLES status, index, metadata, idxFile, metaFile, last,
          pc, local, cached, created

\* the store, its files and what the last call returned
svars == <<status, index, metadata, idxFile, metaFile, last>>

\* the threads of the process (where each stands in its call, the locals of
\* the call), the module-level _indexer and the instances constructed for it
tvars == <<pc, local, cached, created>>

vars == <<status, index, metadata, idxFile, metaFile, last, pc, local, cached, created>>

-----------------------------------------------------------------------------
(* Bounds of the model *)

\* rows the index may hold (guard of add_chunks in the model only)
MaxRows == 2

\* largest k passed to search
MaxK == 3

\* EmbeddingModel.DIMENSION, scaled down from 384
DIMENSION == 2

\* default batch_size of EmbeddingModel.embed, scaled down from 32
BatchSize == 1

-----------------------------------------------------------------------------
(* Texts, records *)

\* the texts the callers pass, in the order that fixes their embedding
TextSeq == <<"reg", "enc", "sur">>

Queries == {"enc", "sur"}

\* act names in ascending (lexicographic) order, as sorted() orders them
ActOrder == <<"KLR Act", "Unknown">>

\* a passage record is a Python dict: a function whose domain is its keys;
\* callers may leave out act_name, and a malformed record has no text
Chunks ==
    { [text |-> "reg", act_name |-> "KLR Act"],
      [text |-> "enc"],
      [act_name |-> "KLR Act"] }

HasKey(c, key) == key \in DOMAIN c

Min(a, b) == IF a < b THEN a ELSE b

RECURSIVE SeqsUpTo(_, _)
SeqsUpTo(S, n) ==
    IF n = 0 THEN { <<>> }
    ELSE LET shorter == SeqsUpTo(S, n - 1)
         IN  shorter \cup { Append(s, x) : s \in { r \in shorter : Len(r) = n - 1 }, x \in S }

\* the argument lists add_chunks is called with
ChunkLists == SeqsUpTo(Chunks, MaxRows)

-----------------------------------------------------------------------------
(* EmbeddingModel *)

TextId(t) == CHOOSE i \in 1..Len(TextSeq) : TextSeq[i] = t

\* tokenizer + model + _pool + normalize for one text: a unit vector that
\* depends on the text only (padding positions are masked out by _pool)
EmbedText(t) ==
    LET axis == ((TextId(t) - 1) % DIMENSION) + 1
        sign == IF ((TextId(t) - 1) \div DIMENSION) % 2 = 0 THEN 1 ELSE -1
    IN  [j \in 1..DIMENSION |-> IF j = axis THEN sign ELSE 0]

\* one pass of the loop body of embed: one row per text of the batch
EmbedBatch(batch) == [i \in 1..Len(batch) |-> EmbedText(batch[i])]

\* the loop of embed stopping before a last batch that is not full
RECURSIVE EmbedFromFullBatches(_, _, _)
EmbedFromFullBatches(texts, i, batch_size) ==
    IF i + batch_size - 1 > Len(texts) THEN <<>>
    ELSE EmbedBatch(SubSeq(texts, i, i + batch_size - 1))
           \o EmbedFromFullBatches(texts, i + batch_size, batch_size)

RECURSIVE EmbedFrom(_, _, _)
EmbedFrom(texts, i, batch_size) ==
    IF i > Len(texts) THEN <<>>
    ELSE EmbedBatch(SubSeq(texts, i, Min(i + batch_size - 1, Len(texts))))
           \o EmbedFrom(texts, i + batch_size, batch_size)

\* embed(texts, batch_size): np.vstack of the batches; empty for no texts
Embed(texts, batch_size) ==
    IF texts = <<>> THEN <<>> ELSE EmbedFrom(texts, 1, batch_size)

EmbedSingle(text) == Embed(<<text>>, BatchSize)[1]

\* number of passes of the loop of embed
NumBatches(texts, batch_size) == (Len(texts) + batch_size - 1) \div batch_size

Dot(u, v) ==
    LET RECURSIVE Sum(_)
        Sum(j) == IF j = 0 THEN 0 ELSE u[j] * v[j] + Sum(j - 1)
    IN  Sum(DIMENSION)

-----------------------------------------------------------------------------
(* The two persisted files *)

NoIndexFile == [exists |-> FALSE, intact |-> FALSE, d |-> 0, ntotal |-> 0, xb |-> <<>>]

NoMetaFile == [exists |-> FALSE, intact |-> FALSE, items |-> <<>>]

\* a file whose write was cut short: it exists and cannot be read back
TruncatedIndexFile == [exists |-> TRUE, intact |-> FALSE, d |-> 0, ntotal |-> 0, xb |-> <<>>]

TruncatedMetaFile == [exists |-> TRUE, intact |-> FALSE, items |-> <<>>]

RECURSIVE Flatten(_)
Flatten(rows) ==
    IF rows = <<>> THEN <<>> ELSE rows[1] \o Flatten(Tail(rows))

\* faiss.write_index: header (d, ntotal) and the rows as one flat array
WriteIndex(rows) ==
    [exists |-> TRUE, intact |-> TRUE, d |-> DIMENSION, ntotal |-> Len(rows),
     xb |-> Flatten(rows)]

\* read_index taking the flat array as column-major
ReadIndexColumnMajor(file) ==
    [i \in 1..file.ntotal |->
        [j \in 1..file.d |-> file.xb[(j - 1) * file.ntotal + i]]]

\* faiss.read_index: the rows cut back out of the flat array
ReadIndex(file) ==
    [i \in 1..file.ntotal |->
        [j \in 1..file.d |-> file.xb[(i - 1) * file.d + j]]]

\* pickle.dump of the metadata list: the records by value, in order
PickleDump(meta) == [exists |-> TRUE, intact |-> TRUE, items |-> meta]

PickleLoad(file) == file.items

-----------------------------------------------------------------------------
(* What the caller saw of the last call *)

NoCall ==
    [op |-> "none", chunks |-> <<>>, query |-> "", k |-> 0, ret |-> <<>>,
     count |-> 0, err |-> "", embedded |-> FALSE, how |-> "", removed |-> 0,
     torn |-> FALSE, idxs |-> <<>>, acts |-> <<>>, dimension |-> 0,
     texts |-> <<>>, batch |-> 0, vecs |-> <<>>,
     hidden |-> <<>>, mask |-> <<>>, rows |-> <<>>,
     thread |-> "", returned |-> FALSE, alone |-> FALSE, inst |-> 0]

Call(op) == [NoCall EXCEPT !.op = op]

Threads == {"t1", "t2"}

\* the locals of a thread that has called nothing yet
NoLocal ==
    [chunks |-> <<>>, query |-> "", k |-> 0, idxs |-> <<>>, scores |-> <<>>,
     alone |-> FALSE, inst |-> 0]

\* LegalIndexer() raising: the embedding model does not load or the index
\* file does not read back (RuntimeError), the metadata file does not
\* (EOFError)
ConstructionErrors == {"RuntimeError", "EOFError"}

\* no thread is inside a call, _indexer is None
ThreadsIdle ==
    /\ pc = [t \in Threads |-> "idle"]
    /\ local = [t \in Threads |-> NoLocal]
    /\ cached = 0
    /\ created = 0

Init ==
    /\ status = "UNINITIALIZED"
    /\ index = <<>>
    /\ metadata = <<>>
    /\ idxFile = NoIndexFile
    /\ metaFile = NoMetaFile
    /\ last = NoCall
    /\ ThreadsIdle

-----------------------------------------------------------------------------
(* LegalIndexer: construction *)

\* self.index.ntotal
vector_count == Len(index)

BothFilesExist == idxFile.exists /\ metaFile.exists

\* _load_or_init, after EmbeddingModel() has loaded: what the new store holds
\* or the error that aborts the construction
LoadOrInit(ifile, mfile) ==
    IF ifile.exists /\ mfile.exists
    THEN \* _load_index
         IF ~ifile.intact
         THEN [err |-> "RuntimeError", how |-> "", index |-> <<>>, metadata |-> <<>>]
         ELSE IF ~mfile.intact
         THEN [err |-> "EOFError", how |-> "", index |-> <<>>, metadata |-> <<>>]
         ELSE [err |-> "", how |-> "hydrated",
               index |-> ReadIndex(ifile), metadata |-> PickleLoad(mfile)]
    ELSE \* _new_index
         [err |-> "", how |-> "empty", index |-> <<>>, metadata |-> <<>>]

\* LegalIndexer(): modelLoads is whether EmbeddingModel._load succeeds
Construct(modelLoads) ==
    /\ status = "UNINITIALIZED"
    /\ LET r == IF modelLoads THEN LoadOrInit(idxFile, metaFile)
                ELSE [err |-> "RuntimeError", how |-> "", index |-> <<>>, metadata |-> <<>>]
       IN  /\ status' = IF r.err = "" THEN "READY" ELSE "UNINITIALIZED"
           /\ index' = r.index
           /\ metadata' = r.metadata
           /\ last' = [Call("construct") EXCEPT !.err = r.err, !.how = r.how]
    /\ UNCHANGED <<idxFile, metaFile>>
    /\ UNCHANGED tvars

-----------------------------------------------------------------------------
(* LegalIndexer.add_chunks *)

\* add_chunks committing batch by batch: the rows of the batches embedded
\* before the failing one stay in the index
AddChunksResultPartial(idx, meta, chunks, failBatch) ==
    IF chunks = <<>>
    THEN [index |-> idx, metadata |-> meta, count |-> 0, err |-> "", embedded |-> FALSE]
    ELSE IF \E i \in 1..Len(chunks) : ~HasKey(chunks[i], "text")
    THEN [index |-> idx, metadata |-> meta, count |-> 0, err |-> "KeyError", embedded |-> FALSE]
    ELSE LET texts == [i \in 1..Len(chunks) |-> chunks[i].text]
             done == IF failBatch = 0 THEN Len(chunks)
                     ELSE Min((failBatch - 1) * BatchSize, Len(chunks))
         IN  [index |-> idx \o Embed(SubSeq(texts, 1, done), BatchSize),
              metadata |-> meta \o SubSeq(chunks, 1, done),
              count |-> IF failBatch = 0 THEN Len(chunks) ELSE 0,
              err |-> IF failBatch = 0 THEN "" ELSE "EmbeddingError",
              embedded |-> TRUE]

\* the call's effect on (index, metadata) and what it returns or raises;
\* failBatch is the pass of embed's loop that raises, 0 when none does.
\* embed returns a 2-dimensional array for every non-empty list of texts, so
\* the reshape of a 1-dimensional one never runs.
AddChunksResult(idx, meta, chunks, failBatch) ==
    IF chunks = <<>>
    THEN [index |-> idx, metadata |-> meta, count |-> 0, err |-> "", embedded |-> FALSE]
    ELSE IF \E i \in 1..Len(chunks) : ~HasKey(chunks[i], "text")
    THEN [index |-> idx, metadata |-> meta, count |-> 0, err |-> "KeyError", embedded |-> FALSE]
    ELSE IF failBatch # 0
    THEN [index |-> idx, metadata |-> meta, count |-> 0, err |-> "EmbeddingError", embedded |-> TRUE]
    ELSE LET emb == Embed([i \in 1..Len(chunks) |-> chunks[i].text], BatchSize)
         IN  IF emb = <<>>
             THEN [index |-> idx, metadata |-> meta, count |-> 0, err |-> "", embedded |-> TRUE]
             ELSE [index |-> idx \o emb, metadata |-> meta \o chunks,
                   count |-> Len(chunks), err |-> "", embedded |-> TRUE]

\* add_chunks that ends with a save_index of its own
AddChunksFlushing(chunks, failBatch) ==
    /\ status = "READY"
    /\ Len(index) + Len(chunks) <= MaxRows
    /\ Len(metadata) + Len(chunks) <= MaxRows
    /\ LET r == AddChunksResult(index, metadata, chunks, failBatch)
       IN  /\ index' = r.index
           /\ metadata' = r.metadata
           /\ idxFile' = IF r.count > 0 THEN WriteIndex(r.index) ELSE idxFile
           /\ metaFile' = IF r.count > 0 THEN PickleDump(r.metadata) ELSE metaFile
           /\ last' = [Call("add") EXCEPT !.chunks = chunks, !.count = r.count,
                                          !.err = r.err, !.embedded = r.embedded]
    /\ UNCHANGED status
    /\ UNCHANGED tvars

AddChunks(chunks, failBatch) ==
    /\ status = "READY"
    /\ Len(index) + Len(chunks) <= MaxRows
    /\ Len(metadata) + Len(chunks) <= MaxRows
    /\ LET r == AddChunksResult(index, metadata, chunks, failBatch)
       IN  /\ index' = r.index
           /\ metadata' = r.metadata
           /\ last' = [Call("add") EXCEPT !.chunks = chunks, !.count = r.count,
                                          !.err = r.err, !.embedded = r.embedded]
    /\ UNCHANGED <<status, idxFile, metaFile>>
    /\ UNCHANGED tvars

-----------------------------------------------------------------------------
(* LegalIndexer.clear_index *)

\* if os.path.exists(p): os.remove(p)
Remove(file, none) == IF file.exists THEN none ELSE file

Removed(file) == IF file.exists THEN 1 ELSE 0

\* clear_index calling os.remove without the os.path.exists test
ClearIndexUnguarded ==
    /\ status = "READY"
    /\ index' = <<>>
    /\ metadata' = <<>>
    /\ idxFile' = NoIndexFile
    /\ metaFile' = IF idxFile.exists THEN NoMetaFile ELSE metaFile
    /\ last' = [Call("clear") EXCEPT
                   !.err = IF idxFile.exists /\ metaFile.exists THEN "" ELSE "FileNotFoundError",
                   !.removed = Removed(idxFile) + (IF idxFile.exists THEN Removed(metaFile) ELSE 0)]
    /\ UNCHANGED status
    /\ UNCHANGED tvars

\* clear_index leaving the store without an index (self.index = None)
ClearIndexDropping ==
    /\ status = "READY"
    /\ status' = "UNINITIALIZED"
    /\ index' = <<>>
    /\ metadata' = <<>>
    /\ idxFile' = Remove(idxFile, NoIndexFile)
    /\ metaFile' = Remove(metaFile, NoMetaFile)
    /\ last' = [Call("clear") EXCEPT !.removed = Removed(idxFile) + Removed(metaFile)]
    /\ UNCHANGED tvars

ClearIndex ==
    /\ status = "READY"
    /\ index' = <<>>
    /\ metadata' = <<>>
    /\ idxFile' = Remove(idxFile, NoIndexFile)
    /\ metaFile' = Remove(metaFile, NoMetaFile)
    /\ last' = [Call("clear") EXCEPT !.removed = Removed(idxFile) + Removed(metaFile)]
    /\ UNCHANGED status
    /\ UNCHANGED tvars

\* the process is killed inside clear_index after the index file was removed
\* and before the metadata file is
ClearIndexKilled ==
    /\ status = "READY"
    /\ status' = "UNINITIALIZED"
    /\ index' = <<>>
    /\ metadata' = <<>>
    /\ idxFile' = Remove(idxFile, NoIndexFile)
    /\ last' = [Call("clear") EXCEPT !.err = "killed", !.removed = Removed(idxFile)]
    /\ UNCHANGED metaFile
    /\ UNCHANGED tvars

-----------------------------------------------------------------------------
(* LegalIndexer.save_index *)

SaveIndex ==
    /\ status = "READY"
    /\ idxFile' = WriteIndex(index)
    /\ metaFile' = PickleDump(metadata)
    /\ last' = Call("save")
    /\ UNCHANGED <<status, index, metadata>>
    /\ UNCHANGED tvars

KillPoints == {"in_index_write", "between_writes", "in_metadata_write"}

\* the process is killed inside save_index: while faiss.write_index writes,
\* after it and before the metadata file is opened, or while pickle.dump
\* writes into the metadata file that open(.., "wb") has emptied
SaveIndexKilled(at) ==
    /\ status = "READY"
    /\ status' = "UNINITIALIZED"
    /\ index' = <<>>
    /\ metadata' = <<>>
    /\ idxFile' = IF at = "in_index_write" THEN TruncatedIndexFile ELSE WriteIndex(index)
    /\ metaFile' = IF at = "in_metadata_write" THEN TruncatedMetaFile ELSE metaFile
    /\ last' = [Call("save") EXCEPT !.err = "killed", !.how = at,
                   !.torn = /\ at = "between_writes"
                             /\ vector_count > 0
                             /\ metaFile # PickleDump(metadata)]
    /\ UNCHANGED tvars

\* the process ends between two calls; the store lives in its memory only
ProcessExit ==
    /\ status = "READY"
    /\ status' = "UNINITIALIZED"
    /\ index' = <<>>
    /\ metadata' = <<>>
    /\ last' = Call("exit")
    /\ UNCHANGED <<idxFile, metaFile>>
    /\ UNCHANGED tvars

-----------------------------------------------------------------------------
(* LegalIndexer.search *)

\* the label faiss returns for a missing result (-1 in the 0-based source)
NoLabel == 0

\* max written for min
ClampKMax(k, ntotal) == IF k > ntotal THEN k ELSE ntotal

\* k = min(k, self.index.ntotal)
ClampK(k, ntotal) == Min(k, ntotal)

IsInjective(f) == \A a, b \in DOMAIN f : f[a] = f[b] => a = b

\* the m best rows by descending inner product; rows of equal score come in
\* any order
BestRows(idx, q, m) ==
    { s \in [1..m -> 1..Len(idx)] :
        /\ IsInjective(s)
        /\ \A a, b \in 1..m : a < b => Dot(q, idx[s[a]]) >= Dot(q, idx[s[b]])
        /\ \A r \in 1..Len(idx) :
              (\A a \in 1..m : s[a] # r) =>
                  \A a \in 1..m : Dot(q, idx[s[a]]) >= Dot(q, idx[r]) }

\* index.search(q, k) of the flat inner-product index: k labels, the best rows
\* first; when k exceeds the row count the labels left over are NoLabel
Rankings(idx, q, k) ==
    { [a \in 1..k |-> IF a <= Len(s) THEN s[a] ELSE NoLabel] :
        s \in BestRows(idx, q, Min(k, Len(idx))) }

\* scores[0] of index.search: the inner products of the labelled rows
Scores(idx, q, idxs) ==
    [a \in 1..Len(idxs) |-> IF idxs[a] = NoLabel THEN 0 ELSE Dot(q, idx[idxs[a]])]

\* c = dict(self.metadata[i]); c["score"] = float(s)
Hit(c, s) == [key \in DOMAIN c \cup {"score"} |-> IF key = "score" THEN s ELSE c[key]]

\* the loop putting each hit in front of the earlier ones
RECURSIVE HitsReversed(_, _, _)
HitsReversed(meta, scores, idxs) ==
    IF idxs = <<>> THEN <<>>
    ELSE IF idxs[1] = NoLabel THEN HitsReversed(meta, Tail(scores), Tail(idxs))
    ELSE HitsReversed(meta, Tail(scores), Tail(idxs)) \o <<Hit(meta[idxs[1]], scores[1])>>

\* the loop over zip(scores[0], idxs[0])
RECURSIVE Hits(_, _, _)
Hits(meta, scores, idxs) ==
    IF idxs = <<>> THEN <<>>
    ELSE IF idxs[1] = NoLabel THEN Hits(meta, Tail(scores), Tail(idxs))
    ELSE <<Hit(meta[idxs[1]], scores[1])>> \o Hits(meta, Tail(scores), Tail(idxs))

\* search embedding the query before it looks at the row count
SearchResultEmbedFirst(idx, meta, query, k, embedFails, idxs) ==
    IF embedFails
    THEN [ret |-> <<>>, err |-> "EmbeddingError", embedded |-> TRUE, idxs |-> <<>>]
    ELSE IF Len(idx) = 0
    THEN [ret |-> <<>>, err |-> "", embedded |-> TRUE, idxs |-> <<>>]
    ELSE LET q == EmbedSingle(query)
             scores == Scores(idx, q, idxs)
         IN  IF \E a \in 1..Len(idxs) : idxs[a] # NoLabel /\ idxs[a] > Len(meta)
             THEN [ret |-> <<>>, err |-> "IndexError", embedded |-> TRUE, idxs |-> idxs]
             ELSE [ret |-> Hits(meta, scores, idxs), err |-> "", embedded |-> TRUE,
                   idxs |-> idxs]

\* what search returns or raises; idxs is the ranking index.search produced
SearchResult(idx, meta, query, k, embedFails, idxs) ==
    IF Len(idx) = 0
    THEN [ret |-> <<>>, err |-> "", embedded |-> FALSE, idxs |-> <<>>]
    ELSE IF embedFails
    THEN [ret |-> <<>>, err |-> "EmbeddingError", embedded |-> TRUE, idxs |-> <<>>]
    ELSE LET q == EmbedSingle(query)
             scores == Scores(idx, q, idxs)
         IN  IF \E a \in 1..Len(idxs) : idxs[a] # NoLabel /\ idxs[a] > Len(meta)
             THEN [ret |-> <<>>, err |-> "IndexError", embedded |-> TRUE, idxs |-> idxs]
             ELSE [ret |-> Hits(meta, scores, idxs), err |-> "", embedded |-> TRUE,
                   idxs |-> idxs]

\* every outcome search(query, k) can have on (idx, meta)
SearchResults(idx, meta, query, k) ==
    { SearchResult(idx, meta, query, k, f, idxs) :
        f \in BOOLEAN,
        idxs \in Rankings(idx, EmbedSingle(query), ClampK(k, Len(idx))) }

Search(query, k, embedFails) ==
    /\ status = "READY"
    /\ \E idxs \in Rankings(index, EmbedSingle(query), ClampK(k, Len(index))) :
          LET r == SearchResult(index, metadata, query, k, embedFails, idxs)
          IN  last' = [Call("search") EXCEPT !.query = query, !.k = k, !.ret = r.ret,
                                             !.err = r.err, !.embedded = r.embedded,
                                             !.idxs = r.idxs]
    /\ UNCHANGED <<status, index, metadata, idxFile, metaFile>>
    /\ UNCHANGED tvars

-----------------------------------------------------------------------------
(* Read-only queries *)

\* sorted({m.get("act_name", "Unknown") for m in self.metadata})
ActSet(meta) ==
    { IF HasKey(meta[i], "act_name") THEN meta[i].act_name ELSE "Unknown" :
        i \in 1..Len(meta) }

\* the act names in the order of their first record, unsorted
indexed_acts_unsorted(meta) ==
    LET name(i) == IF HasKey(meta[i], "act_name") THEN meta[i].act_name ELSE "Unknown"
        first == { i \in 1..Len(meta) : \A j \in 1..(i - 1) : name(j) # name(i) }
        RECURSIVE From(_)
        From(i) == IF i > Len(meta) THEN <<>>
                   ELSE (IF i \in first THEN <<name(i)>> ELSE <<>>) \o From(i + 1)
    IN  From(1)

indexed_acts(meta) == SelectSeq(ActOrder, LAMBDA a : a \in ActSet(meta))

\* the vector_count property read by a caller
VectorCountQuery ==
    /\ status = "READY"
    /\ last' = [Call("vector_count") EXCEPT !.count = vector_count]
    /\ UNCHANGED <<status, index, metadata, idxFile, metaFile>>
    /\ UNCHANGED tvars

\* the metadata sorted by act name
RECURSIVE SortedByAct(_, _)
SortedByAct(meta, from) ==
    IF from > Len(ActOrder) THEN <<>>
    ELSE SelectSeq(meta, LAMBDA m :
             (IF HasKey(m, "act_name") THEN m.act_name ELSE "Unknown") = ActOrder[from])
           \o SortedByAct(meta, from + 1)

\* indexed_acts sorting self.metadata in place before it collects the names
IndexedActsQuerySorting ==
    /\ status = "READY"
    /\ metadata' = SortedByAct(metadata, 1)
    /\ last' = [Call("indexed_acts") EXCEPT !.acts = indexed_acts(metadata)]
    /\ UNCHANGED <<status, index, idxFile, metaFile>>
    /\ UNCHANGED tvars

\* the indexed_acts property read by a caller
IndexedActsQuery ==
    /\ status = "READY"
    /\ last' = [Call("indexed_acts") EXCEPT !.acts = indexed_acts(metadata)]
    /\ UNCHANGED <<status, index, metadata, idxFile, metaFile>>
    /\ UNCHANGED tvars

\* get_stats; the embedding_model entry is the constant MODEL_NAME
GetStats ==
    /\ status = "READY"
    /\ last' = [Call("get_stats") EXCEPT !.count = vector_count,
                                         !.acts = indexed_acts(metadata),
                                         !.dimension = DIMENSION]
    /\ UNCHANGED <<status, index, metadata, idxFile, metaFile>>
    /\ UNCHANGED tvars

-----------------------------------------------------------------------------

Next ==
    \/ \E modelLoads \in BOOLEAN : Construct(modelLoads)
    \/ \E chunks \in ChunkLists :
          \E failBatch \in 0..NumBatches(chunks, BatchSize) : AddChunks(chunks, failBatch)
    \/ \E query \in Queries, k \in 1..MaxK, embedFails \in BOOLEAN :
          Search(query, k, embedFails)
    \/ SaveIndex
    \/ \E at \in KillPoints : SaveIndexKilled(at)
    \/ ClearIndex
    \/ ClearIndexKilled
    \/ ProcessExit
    \/ VectorCountQuery
    \/ IndexedActsQuery
    \/ GetStats

Spec == Init /\ [][Next]_vars

-----------------------------------------------------------------------------
(* EmbeddingModel called on its own *)

MaxTexts == 3
MaxBatch == 3

TextLists == SeqsUpTo({TextSeq[i] : i \in 1..Len(TextSeq)}, MaxTexts)

\* embedder.embed(texts, batch_size)
EmbedCall(texts, batch_size) ==
    /\ last' = [Call("embed") EXCEPT !.texts = texts, !.batch = batch_size,
                                     !.vecs = Embed(texts, batch_size)]
    /\ UNCHANGED <<status, index, metadata, idxFile, metaFile>>
    /\ UNCHANGED tvars

\* embedder.embed_single(text)
EmbedSingleCall(text) ==
    /\ last' = [Call("embed_single") EXCEPT !.texts = <<text>>, !.vecs = <<EmbedSingle(text)>>]
    /\ UNCHANGED <<status, index, metadata, idxFile, metaFile>>
    /\ UNCHANGED tvars

NextEmbed ==
    \/ \E texts \in TextLists, batch_size \in 1..MaxBatch : EmbedCall(texts, batch_size)
    \/ \E text \in Queries : EmbedSingleCall(text)

SpecEmbed == Init /\ [][NextEmbed]_vars

-----------------------------------------------------------------------------
(* _pool and normalize on one row of a batch, in exact arithmetic *)

MaxTokens == 2

\* the values a token's hidden state takes
TokenVecs == {EmbedText(TextSeq[i]) : i \in 1..Len(TextSeq)}

Zero == [j \in 1..DIMENSION |-> 0]

VecAdd(u, v) == [j \in 1..DIMENSION |-> u[j] + v[j]]

NormSq(v) == Dot(v, v)

\* hidden.sum(1): the sum over the tokens with the mask left out
RECURSIVE UnmaskedSum(_, _)
UnmaskedSum(hidden, mask) ==
    IF hidden = <<>> THEN Zero
    ELSE VecAdd(Head(hidden), UnmaskedSum(Tail(hidden), Tail(mask)))

\* (hidden * m).sum(1): the sum of the hidden states of the tokens the mask keeps
RECURSIVE MaskedSum(_, _)
MaskedSum(hidden, mask) ==
    IF hidden = <<>> THEN Zero
    ELSE VecAdd([j \in 1..DIMENSION |-> Head(hidden)[j] * Head(mask)],
                MaskedSum(Tail(hidden), Tail(mask)))

\* m.sum(1): the number of tokens the mask keeps
RECURSIVE MaskCount(_)
MaskCount(mask) == IF mask = <<>> THEN 0 ELSE Head(mask) + MaskCount(Tail(mask))

\* _pool: the vector num / den; clamp(min=1e-9) replaces a count of 0, the
\* only count below 1e-9, by 1e-9, written here as 1 over 10^9
Pool(hidden, mask) ==
    LET c == MaskCount(mask)
    IN  [num |-> MaskedSum(hidden, mask),
         den |-> IF c >= 1 THEN [n |-> c, d |-> 1] ELSE [n |-> 1, d |-> 1000000000]]

\* torch.nn.functional.normalize(p, p=2, dim=1) is p / max(|p|, 1e-12). The
\* hidden states are integers here, so |p| is 0 or at least 1 / MaxTokens:
\* a nonzero p is divided by |p| and becomes num / sqrt(|num|^2), and the
\* zero vector is divided by 1e-12 and stays the zero vector. The result is
\* the vector num / sqrt(den2).
Normalize(p) ==
    IF NormSq(p.num) = 0
    THEN [num |-> p.num, den2 |-> 1]
    ELSE [num |-> p.num, den2 |-> NormSq(p.num)]

Masks(n) == [1..n -> {0, 1}]

Hiddens(n) == [1..n -> TokenVecs]

\* one row through the loop body of embed: _pool, then normalize; the
\* vector of the row before is kept, to score the two against each other
PoolCall(hidden, mask) ==
    /\ last' = [Call("pool") EXCEPT
                  !.hidden = hidden, !.mask = mask,
                  !.rows = <<Normalize(Pool(hidden, mask))>>
                             \o (IF last.rows = <<>> THEN <<>> ELSE <<last.rows[1]>>)]
    /\ UNCHANGED <<status, index, metadata, idxFile, metaFile>>
    /\ UNCHANGED tvars

NextPool ==
    \E n \in 1..MaxTokens : \E hidden \in Hiddens(n), mask \in Masks(n) : PoolCall(hidden, mask)

SpecPool == Init /\ [][NextPool]_vars

-----------------------------------------------------------------------------
(* Threads calling search, add_chunks and clear_index on one READY store,
   one statement at a step *)

\* the rows the store holds at most while threads run on it
MaxThreadRows == 1

SearchPcs == {"s_embed", "s_clamp", "s_search", "s_loop"}

AddPcs == {"a_embed", "a_index", "a_extend"}

ClearPcs == {"c_metadata", "c_remove_index", "c_remove_metadata"}

\* the stores the threads start on: an empty one, one with a row and its
\* record, and one hydrated from an index file of one row beside a metadata
\* file of none
ThreadStores ==
    { [index |-> <<>>, metadata |-> <<>>],
      [index |-> Embed(<<"reg">>, BatchSize),
       metadata |-> <<[text |-> "reg", act_name |-> "KLR Act"]>>],
      [index |-> Embed(<<"enc">>, BatchSize), metadata |-> <<>>] }

InitThreads ==
    /\ status = "READY"
    /\ \E st \in ThreadStores :
          /\ index = st.index
          /\ metadata = st.metadata
          /\ idxFile = IF st.index = <<>> THEN NoIndexFile ELSE WriteIndex(st.index)
          /\ metaFile = IF st.index = <<>> THEN NoMetaFile ELSE PickleDump(st.metadata)
    /\ last = NoCall
    /\ ThreadsIdle

\* the statement a thread ran, and whether its call ended with it
Stmt(t, op, returned) == [Call(op) EXCEPT !.thread = t, !.returned = returned]

\* thread t is at pc p with locals l
Goes(t, p, l) ==
    /\ pc' = [pc EXCEPT ![t] = p]
    /\ local' = [local EXCEPT ![t] = l]

\* no add or clear is in flight in another thread
NoWriter(t) == \A u \in Threads \ {t} : pc[u] \notin AddPcs \cup ClearPcs

\* thread t enters an add or a clear: the searches in flight are no longer
\* among searches alone
GoesWriting(t, p, l) ==
    /\ pc' = [pc EXCEPT ![t] = p]
    /\ local' = [u \in Threads |->
                   IF u = t THEN l
                   ELSE IF pc[u] \in SearchPcs THEN [local[u] EXCEPT !.alone = FALSE]
                   ELSE local[u]]

\* the rows that the adds in flight of the threads S hold
RECURSIVE PendingRows(_)
PendingRows(S) ==
    IF S = {} THEN 0
    ELSE LET t == CHOOSE u \in S : TRUE
         IN  (IF pc[t] \in AddPcs THEN Len(local[t].chunks) ELSE 0) + PendingRows(S \ {t})

\* search returns or raises in thread t
SearchReturns(t, op, query, k, ret, err, embedded, idxs, alone) ==
    /\ last' = [Stmt(t, op, TRUE) EXCEPT !.query = query, !.k = k, !.ret = ret, !.err = err,
                                         !.embedded = embedded, !.idxs = idxs, !.alone = alone]
    /\ Goes(t, "idle", NoLocal)

\* if not self.index or self.index.ntotal == 0: return []
SearchCheck(t, query, k) ==
    /\ pc[t] = "idle"
    /\ IF Len(index) = 0
       THEN SearchReturns(t, "search:check", query, k, <<>>, "", FALSE, <<>>, NoWriter(t))
       ELSE /\ last' = Stmt(t, "search:check", FALSE)
            /\ Goes(t, "s_embed", [NoLocal EXCEPT !.query = query, !.k = k, !.alone = NoWriter(t)])
    /\ UNCHANGED <<status, index, metadata, idxFile, metaFile, cached, created>>

\* q = self.embedder.embed_single(query).reshape(1, -1)
SearchEmbed(t, embedFails) ==
    /\ pc[t] = "s_embed"
    /\ IF embedFails
       THEN SearchReturns(t, "search:embed", local[t].query, local[t].k, <<>>,
                          "EmbeddingError", TRUE, <<>>, local[t].alone)
       ELSE /\ last' = Stmt(t, "search:embed", FALSE)
            /\ Goes(t, "s_clamp", local[t])
    /\ UNCHANGED <<status, index, metadata, idxFile, metaFile, cached, created>>

\* the clamp taking the length of the metadata for the row count
SearchClampByMetadata(t) ==
    /\ pc[t] = "s_clamp"
    /\ last' = Stmt(t, "search:clamp", FALSE)
    /\ Goes(t, "s_search", [local[t] EXCEPT !.k = ClampK(local[t].k, Len(metadata)),
                                            !.idxs = <<local[t].k>>])
    /\ UNCHANGED <<status, index, metadata, idxFile, metaFile, cached, created>>

\* k = min(k, self.index.ntotal); the k of the call is kept in idxs until
\* index.search fills it
SearchClamp(t) ==
    /\ pc[t] = "s_clamp"
    /\ last' = Stmt(t, "search:clamp", FALSE)
    /\ Goes(t, "s_search", [local[t] EXCEPT !.k = ClampK(local[t].k, Len(index)),
                                            !.idxs = <<local[t].k>>])
    /\ UNCHANGED <<status, index, metadata, idxFile, metaFile, cached, created>>

\* scores, idxs = self.index.search(q, k). The index may have been replaced
\* by an empty one since the clamp; with k = 0 faiss either refuses the call
\* or returns no labels, as the build has it
SearchIndex(t, refuses) ==
    /\ pc[t] = "s_search"
    /\ LET q == EmbedSingle(local[t].query)
           k0 == local[t].idxs[1]
       IN  IF local[t].k = 0 /\ refuses
           THEN SearchReturns(t, "search:index.search", local[t].query, k0, <<>>,
                              "AssertionError", TRUE, <<>>, local[t].alone)
           ELSE /\ refuses = FALSE
                /\ \E idxs \in Rankings(index, q, local[t].k) :
                      Goes(t, "s_loop", [local[t] EXCEPT !.k = k0, !.idxs = idxs,
                                                         !.scores = Scores(index, q, idxs)])
                /\ last' = Stmt(t, "search:index.search", FALSE)
    /\ UNCHANGED <<status, index, metadata, idxFile, metaFile, cached, created>>

\* the loop over zip(scores[0], idxs[0]) and return results
SearchLoop(t) ==
    /\ pc[t] = "s_loop"
    /\ LET idxs == local[t].idxs
       IN  IF \E a \in 1..Len(idxs) : idxs[a] # NoLabel /\ idxs[a] > Len(metadata)
           THEN SearchReturns(t, "search:loop", local[t].query, local[t].k, <<>>,
                              "IndexError", TRUE, idxs, local[t].alone)
           ELSE SearchReturns(t, "search:loop", local[t].query, local[t].k,
                              Hits(metadata, local[t].scores, idxs), "", TRUE, idxs,
                              local[t].alone)
    /\ UNCHANGED <<status, index, metadata, idxFile, metaFile, cached, created>>

\* add_chunks returns or raises in thread t
AddReturns(t, op, chunks, count, err, embedded) ==
    /\ last' = [Stmt(t, op, TRUE) EXCEPT !.chunks = chunks, !.count = count, !.err = err,
                                         !.embedded = embedded]
    /\ Goes(t, "idle", NoLocal)

\* if not chunks: return 0, and the texts [c["text"] for c in chunks]
AddTexts(t, chunks) ==
    /\ pc[t] = "idle"
    /\ (IF Len(index) > Len(metadata) THEN Len(index) ELSE Len(metadata))
         + Len(chunks) + PendingRows(Threads \ {t}) <= MaxThreadRows
    /\ IF chunks = <<>>
       THEN AddReturns(t, "add:texts", chunks, 0, "", FALSE)
       ELSE IF \E i \in 1..Len(chunks) : ~HasKey(chunks[i], "text")
       THEN AddReturns(t, "add:texts", chunks, 0, "KeyError", FALSE)
       ELSE /\ last' = Stmt(t, "add:texts", FALSE)
            /\ GoesWriting(t, "a_embed", [NoLocal EXCEPT !.chunks = chunks])
    /\ UNCHANGED <<status, index, metadata, idxFile, metaFile, cached, created>>

\* emb = self.embedder.embed(...)
AddEmbed(t, failBatch) ==
    /\ pc[t] = "a_embed"
    /\ IF failBatch # 0
       THEN AddReturns(t, "add:embed", local[t].chunks, 0, "EmbeddingError", TRUE)
       ELSE /\ last' = Stmt(t, "add:embed", FALSE)
            /\ Goes(t, "a_index", local[t])
    /\ UNCHANGED <<status, index, metadata, idxFile, metaFile, cached, created>>

\* self.index.add(emb)
AddIndex(t) ==
    /\ pc[t] = "a_index"
    /\ index' = index \o Embed([i \in 1..Len(local[t].chunks) |-> local[t].chunks[i].text],
                               BatchSize)
    /\ last' = Stmt(t, "add:index.add", FALSE)
    /\ Goes(t, "a_extend", local[t])
    /\ UNCHANGED <<status, metadata, idxFile, metaFile, cached, created>>

\* self.metadata.extend(chunks); return len(chunks)
AddExtend(t) ==
    /\ pc[t] = "a_extend"
    /\ metadata' = metadata \o local[t].chunks
    /\ AddReturns(t, "add:metadata.extend", local[t].chunks, Len(local[t].chunks), "", TRUE)
    /\ UNCHANGED <<status, index, idxFile, metaFile, cached, created>>

\* _new_index: self.index = faiss.IndexFlatIP(...)
ClearNewIndex(t) ==
    /\ pc[t] = "idle"
    /\ index' = <<>>
    /\ last' = Stmt(t, "clear:index", FALSE)
    /\ GoesWriting(t, "c_metadata", NoLocal)
    /\ UNCHANGED <<status, metadata, idxFile, metaFile, cached, created>>

\* _new_index: self.metadata = []
ClearNewMetadata(t) ==
    /\ pc[t] = "c_metadata"
    /\ metadata' = <<>>
    /\ last' = Stmt(t, "clear:metadata", FALSE)
    /\ Goes(t, "c_remove_index", NoLocal)
    /\ UNCHANGED <<status, index, idxFile, metaFile, cached, created>>

\* if os.path.exists(FAISS_INDEX_PATH): os.remove(FAISS_INDEX_PATH)
ClearRemoveIndex(t) ==
    /\ pc[t] = "c_remove_index"
    /\ idxFile' = Remove(idxFile, NoIndexFile)
    /\ last' = Stmt(t, "clear:remove_index", FALSE)
    /\ Goes(t, "c_remove_metadata", NoLocal)
    /\ UNCHANGED <<status, index, metadata, metaFile, cached, created>>

\* if os.path.exists(METADATA_PATH): os.remove(METADATA_PATH)
ClearRemoveMetadata(t) ==
    /\ pc[t] = "c_remove_metadata"
    /\ metaFile' = Remove(metaFile, NoMetaFile)
    /\ last' = Stmt(t, "clear:remove_metadata", TRUE)
    /\ Goes(t, "idle", NoLocal)
    /\ UNCHANGED <<status, index, metadata, idxFile, cached, created>>

NextThreads ==
    \E t \in Threads :
        \/ \E query \in Queries, k \in 1..MaxK : SearchCheck(t, query, k)
        \/ \E embedFails \in BOOLEAN : SearchEmbed(t, embedFails)
        \/ SearchClamp(t)
        \/ \E refuses \in BOOLEAN : SearchIndex(t, refuses)
        \/ SearchLoop(t)
        \/ \E chunks \in SeqsUpTo(Chunks, 1) : AddTexts(t, chunks)
        \/ \E failBatch \in 0..1 : AddEmbed(t, failBatch)
        \/ AddIndex(t)
        \/ AddExtend(t)
        \/ ClearNewIndex(t)
        \/ ClearNewMetadata(t)
        \/ ClearRemoveIndex(t)
        \/ ClearRemoveMetadata(t)

SpecThreads == InitThreads /\ [][NextThreads]_vars

-----------------------------------------------------------------------------
(* Threads calling get_indexer, one statement at a step; the instances
   LegalIndexer() makes are numbered in the order they are made *)

\* if _indexer is None:
GetIndexerTest(t) ==
    /\ pc[t] = "idle"
    /\ last' = Stmt(t, "get_indexer:test", FALSE)
    /\ Goes(t, IF cached = 0 THEN "g_construct" ELSE "g_return", NoLocal)
    /\ UNCHANGED <<status, index, metadata, idxFile, metaFile, cached, created>>

\* LegalIndexer(), the right-hand side of the assignment: a new instance, or
\* the exception of a construction that fails, which get_indexer lets through
GetIndexerConstruct(t, err) ==
    /\ pc[t] = "g_construct"
    /\ IF err = ""
       THEN /\ created' = created + 1
            /\ last' = Stmt(t, "get_indexer:construct", FALSE)
            /\ Goes(t, "g_assign", [NoLocal EXCEPT !.inst = created + 1])
       ELSE /\ created' = created
            /\ last' = [Stmt(t, "get_indexer:construct", TRUE) EXCEPT !.err = err]
            /\ Goes(t, "idle", NoLocal)
    /\ UNCHANGED <<status, index, metadata, idxFile, metaFile, cached>>

\* _indexer = <the new instance>
GetIndexerAssign(t) ==
    /\ pc[t] = "g_assign"
    /\ cached' = local[t].inst
    /\ last' = Stmt(t, "get_indexer:assign", FALSE)
    /\ Goes(t, "g_return", NoLocal)
    /\ UNCHANGED <<status, index, metadata, idxFile, metaFile, created>>

\* return _indexer; the thread keeps the instance it got
GetIndexerReturn(t) ==
    /\ pc[t] = "g_return"
    /\ last' = [Stmt(t, "get_indexer:return", TRUE) EXCEPT !.inst = cached]
    /\ Goes(t, "idle", [NoLocal EXCEPT !.inst = cached])
    /\ UNCHANGED <<status, index, metadata, idxFile, metaFile, cached, created>>

NextSingleton ==
    \E t \in Threads :
        \/ GetIndexerTest(t)
        \/ \E err \in ConstructionErrors \cup {""} : GetIndexerConstruct(t, err)
        \/ GetIndexerAssign(t)
        \/ GetIndexerReturn(t)

SpecSingleton == Init /\ [][NextSingleton]_vars

-----------------------------------------------------------------------------
(* The caller keeps the objects it passed and got *)

\* the dict c with c[key] = val assigned
Assign(c, key, val) == [x \in DOMAIN c \cup {key} |-> IF x = key THEN val ELSE c[x]]

\* metadata.extend(chunks) keeps the caller's dict objects: after a successful
\* add the caller assigns to a key of the j-th record it passed, and the
\* entry of the metadata, the same object, changes with it
CallerMutatesRecord(j, key, val) ==
    /\ status = "READY"
    /\ last.op = "add"
    /\ last.err = ""
    /\ j \in 1..last.count
    /\ LET pos == Len(metadata) - last.count + j
       IN  metadata' = [metadata EXCEPT ![pos] = Assign(metadata[pos], key, val)]
    /\ last' = [Call("caller_mutates_record") EXCEPT !.k = j]
    /\ UNCHANGED <<status, index, idxFile, metaFile>>
    /\ UNCHANGED tvars

\* search returns dict(self.metadata[i]), a copy of its own: the caller
\* assigns to a key of the a-th hit it got
CallerMutatesHit(a, key, val) ==
    /\ status = "READY"
    /\ last.op = "search"
    /\ a \in 1..Len(last.ret)
    /\ last' = [Call("caller_mutates_hit") EXCEPT !.ret = [last.ret EXCEPT ![a] = Assign(last.ret[a], key, val)]]
    /\ UNCHANGED <<status, index, metadata, idxFile, metaFile>>
    /\ UNCHANGED tvars

NextAlias ==
    \/ Next
    \/ \E j \in 1..MaxRows, val \in {"reg", "enc"} : CallerMutatesRecord(j, "text", val)
    \/ \E a \in 1..MaxK, val \in {"reg", "enc"} : CallerMutatesHit(a, "text", val)

SpecAlias == Init /\ [][NextAlias]_vars

-----------------------------------------------------------------------------
(* Properties *)

\* what search returns on a store without rows
EmptyResult == [ret |-> <<>>, err |-> "", embedded |-> FALSE, idxs |-> <<>>]

FilesIntact == idxFile.exists /\ metaFile.exists /\ idxFile.intact /\ metaFile.intact

\* C1: whenever the store is READY, the metadata sequence is as long as the
\* index has rows
C1_PairingInvariant ==
    status = "READY" => Len(metadata) = Len(index)

\* C2: a successful add of n records returns n and appends n rows and n
\* metadata entries in input order, leaves the earlier rows and entries in
\* place, and afterwards metadata[i] is the record embedded into row i at
\* every position i
C2_AddAppendsInOrder ==
    [][(last'.op = "add" /\ last'.err = "") =>
          LET n == Len(last'.chunks)
          IN  /\ last'.count = n
              /\ Len(index') = Len(index) + n
              /\ Len(metadata') = Len(metadata) + n
              /\ SubSeq(index', 1, Len(index)) = index
              /\ SubSeq(metadata', 1, Len(metadata)) = metadata
              /\ \A j \in 1..n :
                    LET i == Len(metadata) + j
                    IN  /\ metadata'[i] = last'.chunks[j]
                        /\ i <= Len(index')
                        /\ index'[i] = EmbedText(last'.chunks[j].text)]_vars

\* C3: an add that raises (no text in a record, or the embedding of a batch
\* fails) leaves the index and the metadata as they were
C3_FailedAddChangesNothing ==
    [][(last'.op = "add" /\ last'.err # "") =>
          (index' = index /\ metadata' = metadata)]_vars

C3_Witness ==
    /\ last.op = "add"
    /\ last.err = "EmbeddingError"
    /\ NumBatches(last.chunks, BatchSize) >= 2

\* C4: a construction that finds both files readable with a row count that
\* differs from the metadata length fails and yields no READY store
C4_MismatchRefused ==
    (last.op = "construct" /\ FilesIntact /\ idxFile.ntotal # Len(metaFile.items))
        => (last.err # "" /\ status # "READY")

\* C5: the construction that follows a save killed between its two writes,
\* which left the new index beside the old or no metadata, reports the torn
\* pair
C5_TornSaveDetected ==
    [][(last.op = "save" /\ last.torn /\ last'.op = "construct") =>
          last'.err # ""]_vars

\* C6: after a completed save a store loaded from the two files has the rows
\* and the metadata of the saving store, in the same order, and every search
\* on it has the outcomes of the same search on the saving store
C6_RoundTrip ==
    (last.op = "save" /\ last.err = "") =>
        LET loaded == LoadOrInit(idxFile, metaFile)
        IN  /\ loaded.err = ""
            /\ loaded.how = "hydrated"
            /\ loaded.index = index
            /\ loaded.metadata = metadata
            /\ \A q \in Queries, k \in 1..MaxK :
                  SearchResults(loaded.index, loaded.metadata, q, k)
                      = SearchResults(index, metadata, q, k)

C6_Witness ==
    /\ last.op = "save"
    /\ last.err = ""
    /\ Len(index) >= 2
    /\ index[1] # index[2]
    /\ Len(metadata) = Len(index)

\* C7: the two files change in save and clear only; add and search, failed
\* or not, leave them as they were
C7_NoImplicitFlush ==
    [][/\ (idxFile' # idxFile \/ metaFile' # metaFile) => last'.op \in {"save", "clear"}
       /\ last'.op \in {"add", "search", "construct", "exit"} =>
             (idxFile' = idxFile /\ metaFile' = metaFile)]_vars

C7_Witness ==
    /\ last.op = "add"
    /\ last.count > 0
    /\ FilesIntact
    /\ idxFile.ntotal < Len(index)
    /\ Len(metaFile.items) < Len(metadata)

\* the state a completed clear leaves
Cleared ==
    /\ status = "READY"
    /\ vector_count = 0
    /\ metadata = <<>>
    /\ ~idxFile.exists
    /\ ~metaFile.exists
    /\ \A q \in Queries, k \in 1..MaxK :
          SearchResults(index, metadata, q, k) = {EmptyResult}

\* C8: a clear that runs to its end raises nothing and leaves no rows, no
\* metadata and no file, so that search returns the empty sequence; a second
\* clear raises nothing and leaves that state as it is
C8_ClearIdempotent ==
    /\ []((last.op = "clear" /\ last.err # "killed") => (last.err = "" /\ Cleared))
    /\ [][(last.op = "clear" /\ last.err = "" /\ last'.op = "clear" /\ last'.err # "killed") =>
             (last'.err = "" /\ UNCHANGED <<status, index, metadata, idxFile, metaFile>>)]_vars

C8_Witness ==
    /\ last.op = "clear"
    /\ last.err = ""
    /\ last.removed = 2

\* C9: a construction hydrates exactly when both files exist and agree in
\* length; without both files the store starts with no rows, no act names
\* and empty search results
C9_HydratesIffConsistentFiles ==
    (last.op = "construct" /\ last.err = "") =>
        /\ (last.how = "hydrated") <=>
              (BothFilesExist /\ idxFile.ntotal = Len(metaFile.items))
        /\ ~BothFilesExist =>
              /\ vector_count = 0
              /\ metadata = <<>>
              /\ indexed_acts(metadata) = <<>>
              /\ \A q \in Queries, k \in 1..MaxK :
                    SearchResults(index, metadata, q, k) = {EmptyResult}

\* C10: search on a store without rows returns the empty sequence, raises
\* nothing and does not call the embedding model
C10_EmptySearch ==
    (last.op = "search" /\ vector_count = 0) => 
        (last.ret = <<>> /\ last.err = "" /\ ~last.embedded)

C10_Witness ==
    /\ last.op = "search"
    /\ vector_count = 0
    /\ last.k = MaxK
    /\ idxFile.exists

\* the labels of a ranking that name a row
Labelled(idxs) == { a \in 1..Len(idxs) : idxs[a] # NoLabel }

\* C11: a search that returns has at most min(k, n) hits, exactly that many
\* when every label names a row, and no row twice; for k above the row count
\* n every outcome, errors included, is an outcome of the search with k = n
C11_KClamped ==
    /\ (last.op = "search" /\ last.err = "") =>
          /\ Len(last.ret) <= Min(last.k, vector_count)
          /\ Len(last.ret) = Cardinality(Labelled(last.idxs))
          /\ Labelled(last.idxs) = 1..Len(last.idxs) =>
                Len(last.ret) = Min(last.k, vector_count)
          /\ \A a, b \in Labelled(last.idxs) : last.idxs[a] = last.idxs[b] => a = b
    /\ status = "READY" =>
          \A q \in Queries, k \in 1..MaxK :
              k > vector_count =>
                  SearchResults(index, metadata, q, k)
                      = SearchResults(index, metadata, q, vector_count)

C11_Witness ==
    /\ last.op = "search"
    /\ last.err = ""
    /\ vector_count >= 2
    /\ last.k > vector_count
    /\ Len(last.ret) = vector_count

\* C12: the hits of a search come in non-increasing score order, no row left
\* out scores above a returned one, and each hit is the metadata record at
\* the position of its row plus the inner product of the query with that row
C12_TopKRanked ==
    (last.op = "search" /\ last.err = "" /\ vector_count > 0) =>
        LET q == EmbedSingle(last.query)
            n == Len(last.ret)
        IN  /\ n = Len(last.idxs)
            /\ \A a \in 1..n :
                  LET row == last.idxs[a]
                  IN  /\ DOMAIN last.ret[a] = DOMAIN metadata[row] \cup {"score"}
                      /\ \A key \in DOMAIN metadata[row] :
                            last.ret[a][key] = metadata[row][key]
                      /\ last.ret[a]["score"] = Dot(q, index[row])
            /\ \A a, b \in 1..n : a < b => last.ret[a]["score"] >= last.ret[b]["score"]
            /\ \A r \in 1..vector_count :
                  (\A a \in 1..n : last.idxs[a] # r) =>
                      \A a \in 1..n : last.ret[a]["score"] >= Dot(q, index[r])

C12_Witness ==
    /\ last.op = "search"
    /\ last.err = ""
    /\ vector_count = 2
    /\ Len(last.ret) = 1
    /\ \E r \in 1..vector_count :
          Dot(EmbedSingle(last.query), index[r]) < last.ret[1]["score"]

ReadOnlyCalls == {"search", "vector_count", "indexed_acts", "get_stats"}

\* C14: row_count, the distinct act names, the statistics and search, also a
\* search whose embedding fails, leave the rows, the metadata and both files
\* as they were
C14_QueriesChangeNothing ==
    [][last'.op \in ReadOnlyCalls =>
          UNCHANGED <<status, index, metadata, idxFile, metaFile>>]_vars

C14_Witness ==
    /\ last.op = "search"
    /\ last.err = "EmbeddingError"
    /\ vector_count > 0
    /\ FilesIntact

Rank(a) == CHOOSE i \in 1..Len(ActOrder) : ActOrder[i] = a

\* the act names come once each and in ascending order
OnceAscending(acts) ==
    \A i, j \in 1..Len(acts) : i < j => Rank(acts[i]) < Rank(acts[j])

\* C15 as stated: the query returns the act_name values of the stored
\* records, each once and ascending, nothing else, and is empty exactly when
\* the store has no rows
C15_ActsAreStoredNames ==
    last.op = "indexed_acts" =>
        /\ OnceAscending(last.acts)
        /\ \A i \in 1..Len(metadata) :
              HasKey(metadata[i], "act_name") =>
                  \E j \in 1..Len(last.acts) : last.acts[j] = metadata[i].act_name
        /\ \A j \in 1..Len(last.acts) :
              \E i \in 1..Len(metadata) :
                  HasKey(metadata[i], "act_name") /\ metadata[i].act_name = last.acts[j]
        /\ (last.acts = <<>>) <=> (vector_count = 0)

\* C15 amended: the query returns, each once and ascending, the act_name of
\* every metadata record, "Unknown" standing for a record without one, and
\* nothing else; it is empty exactly when the metadata is
C15_ActsWithDefault ==
    last.op = "indexed_acts" =>
        /\ OnceAscending(last.acts)
        /\ \A i \in 1..Len(metadata) :
              \E j \in 1..Len(last.acts) :
                  last.acts[j] = (IF HasKey(metadata[i], "act_name")
                                  THEN metadata[i].act_name ELSE "Unknown")
        /\ \A j \in 1..Len(last.acts) :
              \E i \in 1..Len(metadata) :
                  last.acts[j] = (IF HasKey(metadata[i], "act_name")
                                  THEN metadata[i].act_name ELSE "Unknown")
        /\ (last.acts = <<>>) <=> (metadata = <<>>)

C15_Witness ==
    /\ last.op = "indexed_acts"
    /\ Len(last.acts) = 2
    /\ Len(metadata) = 2
    /\ ~HasKey(metadata[1], "act_name")

\* C18: a construction that succeeds and every add, search, save and clear
\* that returns or raises leave the store READY, and in a READY store each
\* of the four can be called again
C18_AlwaysReady ==
    (\/ last.op = "construct" /\ last.err = ""
     \/ last.op \in {"add", "search"}
     \/ last.op \in {"save", "clear"} /\ last.err # "killed") =>
        /\ status = "READY"
        /\ ENABLED ClearIndex
        /\ ENABLED SaveIndex
        /\ ENABLED (\E chunks \in ChunkLists : AddChunks(chunks, 0))
        /\ ENABLED (\E q \in Queries : Search(q, 1, FALSE))

C18_Witness ==
    /\ last.op = "save"
    /\ last.err = ""
    /\ vector_count = 0
    /\ metadata = <<>>
    /\ idxFile.ntotal = 0
    /\ metaFile.items = <<>>


\* C13: in a READY store the metadata changes in add and clear only; what
\* the caller does to a record it passed or to a hit it got changes nothing
\* that is stored
C13_StoredByValue ==
    [][(status = "READY" /\ status' = "READY" /\ metadata' # metadata) =>
          last'.op \in {"add", "clear"}]_vars

\* C16: embed returns one vector per text, in the order of the texts, the
\* i-th being embed_single of the i-th text, whatever the batch size; no
\* texts give no vectors
C16_EmbedKeepsOrder ==
    last.op = "embed" =>
        /\ last.err = ""
        /\ Len(last.vecs) = Len(last.texts)
        /\ \A i \in 1..Len(last.texts) : last.vecs[i] = EmbedSingle(last.texts[i])

\* embed has run on texts that fill one batch and a part of the next, and
\* that do not all embed alike
C16_Witness ==
    /\ last.op = "embed"
    /\ last.batch > 1
    /\ Len(last.texts) > last.batch
    /\ Len(last.texts) % last.batch # 0
    /\ \E i, j \in 1..Len(last.texts) : EmbedText(last.texts[i]) # EmbedText(last.texts[j])
    /\ Len(last.vecs) = Len(last.texts)

\* the square of the norm of the vector num / sqrt(den2) is 1
UnitNorm(r) == NormSq(r.num) = r.den2

\* the inner product of two returned vectors lies in [-1, 1]
ScoreInRange(a, b) == Dot(a.num, b.num) * Dot(a.num, b.num) <= a.den2 * b.den2

SearchStmts ==
    {"search:check", "search:embed", "search:clamp", "search:index.search", "search:loop"}

\* the statements between which the row count and the metadata length differ
\* from what they were: index.add and metadata.extend of add_chunks, and the
\* two assignments of _new_index
WindowStmts == {"add:index.add", "add:metadata.extend", "clear:index", "clear:metadata"}

\* C17 as claimed: a store whose row count and metadata length agree loses
\* that agreement in one way only, by the index.add of an add in flight
C17_OnlyAddWindow ==
    [][(Len(index) = Len(metadata) /\ Len(index') # Len(metadata')) =>
          last'.op = "add:index.add"]_vars

\* C17 as the code has it: no statement of search changes the store or its
\* files; a search that ran with no add or clear in flight returns an outcome
\* of search run alone on the store; and the difference between the row count
\* and the metadata length changes only in the statements of an add or of a
\* clear in flight
C17_SearchesAloneAreSafe ==
    [][/\ last'.op \in SearchStmts => UNCHANGED <<status, index, metadata, idxFile, metaFile>>
       /\ (last'.op \in SearchStmts /\ last'.returned /\ last'.alone) =>
             [ret |-> last'.ret, err |-> last'.err, embedded |-> last'.embedded,
              idxs |-> last'.idxs] \in SearchResults(index, metadata, last'.query, last'.k)
       /\ (Len(index') - Len(metadata') # Len(index) - Len(metadata)) =>
             last'.op \in WindowStmts]_vars

\* a search has met a label past the end of the metadata while an add on a
\* paired store stood between its index.add and its metadata.extend
C17_Witness ==
    /\ last.op = "search:loop"
    /\ last.err = "IndexError"
    /\ ~last.alone
    /\ \E u \in Threads :
          /\ pc[u] = "a_extend"
          /\ Len(index) = Len(metadata) + Len(local[u].chunks)

\* C20: get_indexer makes no more than one instance, two threads calling it
\* for the first time together included; every caller holds the cached
\* instance; and a construction that fails leaves _indexer unset
C20_OneInstance ==
    /\ created <= 1
    /\ \A t \in Threads : pc[t] = "idle" /\ local[t].inst # 0 => local[t].inst = cached
    /\ (last.op = "get_indexer:construct" /\ last.err # "" /\ created = 0) => cached = 0

====
